---- MODULE Spec2Model ----
(***************************************************************************)
(* State-machine model of the B2B Oil & Gas Supplier API (src/main.py) and *)
(* of the request schemas it validates against (src/schemas.py).           *)
(*                                                                         *)
(* Conventions.  An Optional[T] value is a sequence of length at most one: *)
(* None for Python's None (or an absent JSON key), Some(v) for a value.    *)
(* A collection is the sequence of its documents in insertion order; a     *)
(* document is a record with an _id field.  An ObjectId is a natural       *)
(* number and str(ObjectId) is its decimal text.  A text that the code     *)
(* slices is a sequence of one-character strings.                          *)
(***************************************************************************)
EXTENDS Integers, Sequences, FiniteSets, TLC

VARIABLES
  db,       \* the process-wide storage handle: "None" or "Database"
  store,    \* the document store: collection name -> sequence of documents
  resp,     \* the last completed request and the response it got
  created,  \* history: every create_document call that returned
  seeds,    \* history: number of /seed requests that returned {"status": "ok"}
  pc,       \* per worker thread: position inside seed_demo_data
  counts    \* per worker thread: prod_count, case_count, sol_count

vars == <<db, store, resp, created, seeds, pc, counts>>

-----------------------------------------------------------------------------
(* Bounds of the model.                                                    *)

MaxRfq == 2      \* documents the rfq collection may grow to
MaxSeeds == 2    \* completed /seed requests in a sequential run
NumProcs == 2    \* worker threads running /seed concurrently

-----------------------------------------------------------------------------
(* Values.                                                                 *)

None == <<>>
Some(v) == <<v>>

Take(s, n) == SubSeq(s, 1, IF Len(s) < n THEN Len(s) ELSE n)

Collections == <<"product", "industrysolution", "casestudy", "rfq">>

CollectionNames == {Collections[i] : i \in DOMAIN Collections}

\* str(ObjectId)
str(oid) == ToString(oid)

PdfUrl == "https://www.w3.org/WAI/ER/tests/xhtml/testfiles/resources/pdf/dummy.pdf"

\* schemas.Certification(name=..., pdf_url=...)
Certification(name, pdf_url) ==
  [name |-> name, pdf_url |-> pdf_url, standard |-> None]

\* schemas.Product(...)
Product(slug, name, category, description, image_url, spec_pdf_url, certifications, tags) ==
  [slug |-> slug, name |-> name, category |-> category, description |-> description,
   image_url |-> image_url, spec_pdf_url |-> spec_pdf_url,
   certifications |-> certifications, tags |-> tags]

\* schemas.IndustrySolution(...)
IndustrySolution(slug, title, segment, problem, solution, related_products) ==
  [slug |-> slug, title |-> title, segment |-> segment, problem |-> problem,
   solution |-> solution, related_products |-> related_products, content |-> None]

\* schemas.CaseStudy(...)
CaseStudy(slug, title, client, location, challenge, solution, outcome, products_used, image_url) ==
  [slug |-> slug, title |-> title, client |-> client, location |-> location,
   challenge |-> challenge, solution |-> solution, outcome |-> outcome,
   products_used |-> products_used, image_url |-> image_url]

-----------------------------------------------------------------------------
(* The demo records POST /seed creates.                                    *)

DemoProducts ==
  << Product("cryogenic-solenoid-valve-csv200",
             "Cryogenic Solenoid Valve CSV-200",
             "Valves",
             "High-reliability cryogenic solenoid valve for LNG applications down to -196°C.",
             "https://images.unsplash.com/photo-1581091215367-59ab6d7c1b5b?q=80&w=1200&auto=format&fit=crop",
             PdfUrl,
             << Certification("ISO 9001:2015", PdfUrl), Certification("API 6D", PdfUrl) >>,
             << "cryogenic", "valve", "LNG", "solenoid" >>),
     Product("downhole-pressure-sensor-dps50",
             "Downhole Pressure Sensor DPS-50",
             "Sensors",
             "High-accuracy downhole pressure sensor rated up to 20k psi for drilling ops.",
             "https://images.unsplash.com/photo-1606229365485-931b9043d692?q=80&w=1200&auto=format&fit=crop",
             PdfUrl,
             << Certification("ISO 14001", PdfUrl) >>,
             << "sensor", "downhole", "pressure" >>) >>

DemoSolutions ==
  << IndustrySolution("upstream-drilling-automation",
                      "Upstream Drilling Automation",
                      "upstream",
                      "Inconsistent pressure readings lead to NPT and safety risks.",
                      "Deploy DPS-50 sensors with real-time telemetry to improve decision-making and reduce NPT.",
                      << "downhole-pressure-sensor-dps50" >>),
     IndustrySolution("midstream-lng-cryogenic-handling",
                      "Midstream LNG Cryogenic Handling",
                      "midstream",
                      "Valve leakage at cryogenic temperatures causes loss and hazards.",
                      "Implement CSV-200 with certified sealing for -196°C service.",
                      << "cryogenic-solenoid-valve-csv200" >>) >>

DemoCaseStudies ==
  << CaseStudy("lng-terminal-leak-reduction",
               "LNG Terminal Leak Reduction",
               "Nordic LNG Co.",
               Some("Norway"),
               "Frequent valve seat leaks during peak winter operations.",
               "Retrofitted 120 units of CSV-200 with improved seal design.",
               "Leak incidents reduced by 87% within first quarter; improved throughput by 6%.",
               << "cryogenic-solenoid-valve-csv200" >>,
               Some("https://images.unsplash.com/photo-1520607162513-77705c0f0d4a?q=80&w=1200&auto=format&fit=crop")) >>

-----------------------------------------------------------------------------
(* schemas.RFQ: validation of a request body.  A body gives each key as    *)
(* None (key absent) or Some(value).                                       *)

RFQRequired == {"company_name", "contact_name", "email"}

\* RFQ_errors with the quantity constraint written ge=0
RFQ_errors_ge_0(body) ==
  {k \in RFQRequired : body[k] = None}
    \cup (IF body.quantity # None /\ ~(body.quantity[1] >= 0) THEN {"quantity"} ELSE {})

\* the fields of the body that fail validation
RFQ_errors(body) ==
  {k \in RFQRequired : body[k] = None}
    \cup (IF body.quantity # None /\ ~(body.quantity[1] >= 1) THEN {"quantity"} ELSE {})

\* the validated entity: required fields unwrapped, defaults filled in
RFQ(body) ==
  [company_name |-> body.company_name[1],
   contact_name |-> body.contact_name[1],
   email |-> body.email[1],
   phone |-> None,
   project_name |-> None,
   project_description |-> None,
   specifications |-> None,
   product_slugs |-> IF body.product_slugs = None THEN <<>> ELSE body.product_slugs[1],
   quantity |-> body.quantity,
   timeline |-> None,
   location |-> None,
   notes |-> None]

-----------------------------------------------------------------------------
(* The storage accessor (module database) and the driver calls main.py    *)
(* makes on db[...] directly.                                              *)

\* a fresh identifier: documents are never removed, so the number of
\* documents stored so far identifies the next one
NewObjectId(st) ==
  1 + Len(st["product"]) + Len(st["industrysolution"]) + Len(st["casestudy"]) + Len(st["rfq"])

\* create_document(collection_name, data): insert, return the id as a string
create_document(st, collection_name, data) ==
  LET oid == NewObjectId(st)
  IN  [store |-> [st EXCEPT ![collection_name] = Append(@, ("_id" :> oid) @@ data)],
       id |-> str(oid)]

\* whether document d satisfies the equality filter q ({} matches all)
Matches(d, q) == \A k \in DOMAIN q : k \in DOMAIN d /\ d[k] = q[k]

\* list(db[collection].find(filter_q))
find(docs, filter_q) ==
  LET Test(d) == Matches(d, filter_q)
  IN  SelectSeq(docs, Test)

\* get_documents(collection_name)
get_documents(st, collection_name) == find(st[collection_name], <<>>)

\* db[collection].find_one(filter_q): the first match, or None
find_one(docs, filter_q) ==
  LET hits == find(docs, filter_q)
  IN  IF hits = <<>> THEN None ELSE Some(hits[1])

\* db[collection].count_documents({})
count_documents(docs) == Len(docs)

\* for d in docs: d["_id"] = str(d.get("_id"))   (on the fetched copies)
Stringified(docs) == [i \in DOMAIN docs |-> [docs[i] EXCEPT !["_id"] = str(@)]]

-----------------------------------------------------------------------------
(* The endpoints of main.py.  Each handler is an operator from the storage *)
(* handle, the store and the request's inputs to the HTTP response, the    *)
(* store it leaves and the create_document calls it made.                  *)

\* a handler's normal return: status 200 with the returned value as body
Return(body, st, made) ==
  [status |-> 200, body |-> body, store |-> st, created |-> made]

\* raise HTTPException(status_code=..., detail=...)
HTTPException(status_code, detail, st) ==
  [status |-> status_code, body |-> [detail |-> detail], store |-> st, created |-> {}]

\* the framework's answer to a body that fails the handler's declared schema
RequestValidationError(errors, st) ==
  [status |-> 422, body |-> [detail |-> errors], store |-> st, created |-> {}]

\* str(e)[:80]
ErrLimit == 80

\* collections[:10]
CollLimit == 10

\* db.list_collection_names(): the collections that hold a document (a
\* collection exists from its first write), then any the database holds
\* besides this program's
list_collection_names(st, others) ==
  LET Test(c) == st[c] # <<>>
  IN  SelectSeq(Collections, Test) \o others

\* test_database without the inner try: the listing's exception escapes
test_database_unguarded(d, st, DATABASE_URL, DATABASE_NAME, listing) ==
  IF d # "None" /\ listing.raised
    THEN HTTPException(500, "Internal Server Error", st)
    ELSE Return([backend |-> "Running",
                 database |-> [text |-> "Connected & Working", detail |-> <<>>],
                 database_url |-> DATABASE_URL,
                 database_name |-> DATABASE_NAME,
                 connection_status |-> IF d # "None" THEN "Connected" ELSE "Not Connected",
                 collections |-> <<>>], st, {})

\* GET /test.  listing is the outcome of db.list_collection_names():
\* [raised |-> FALSE, others |-> names] or [raised |-> TRUE, message |-> text]
test_database(d, st, DATABASE_URL, DATABASE_NAME, listing) ==
  LET response ==
        [backend |-> "Running",
         database |-> [text |-> "Not Available", detail |-> <<>>],
         database_url |-> None,
         database_name |-> None,
         connection_status |-> "Not Connected",
         collections |-> <<>>]
      url == IF DATABASE_URL # None /\ DATABASE_URL # Some("")
               THEN Some("Set") ELSE Some("Not Set")
      name == IF DATABASE_NAME # None /\ DATABASE_NAME # Some("")
                THEN DATABASE_NAME ELSE Some("Not Set")
      available == [response EXCEPT !.database = [text |-> "Available", detail |-> <<>>],
                                    !.database_url = url,
                                    !.database_name = name]
  IN  IF d # "None"
        THEN IF ~listing.raised
               THEN Return([available EXCEPT
                              !.collections = Take(list_collection_names(st, listing.others), CollLimit),
                              !.database = [text |-> "Connected & Working", detail |-> <<>>],
                              !.connection_status = "Connected"], st, {})
               ELSE Return([available EXCEPT
                              !.database = [text |-> "Connected but Error: ",
                                            detail |-> Take(listing.message, ErrLimit)]], st, {})
        ELSE Return([response EXCEPT
                       !.database = [text |-> "Available but not initialized", detail |-> <<>>]],
                    st, {})

\* the emptiness test written count >= 0
seed_unless_negative(count) == count >= 0

\* "Only seed if empty"
only_seed_if_empty(count) == count = 0

\* the create_document calls of one `if count == 0:` block, in order
RECURSIVE create_all(_, _, _)
create_all(st, collection_name, entities) ==
  IF entities = <<>>
    THEN [store |-> st, created |-> {}]
    ELSE LET one == create_document(st, collection_name, Head(entities))
             rest == create_all(one.store, collection_name, Tail(entities))
         IN  [store |-> rest.store,
              created |-> {[coll |-> collection_name, id |-> one.id, entity |-> Head(entities)]}
                            \cup rest.created]

\* POST /seed, run without interruption
seed_demo_data(d, st) ==
  IF d = "None"
    THEN HTTPException(500, "Database not configured", st)
    ELSE LET prod_count == count_documents(st["product"])
             case_count == count_documents(st["casestudy"])
             sol_count == count_documents(st["industrysolution"])
             nothing == [store |-> st, created |-> {}]
             p == IF only_seed_if_empty(prod_count)
                    THEN create_all(st, "product", DemoProducts) ELSE nothing
             s == IF only_seed_if_empty(sol_count)
                    THEN create_all(p.store, "industrysolution", DemoSolutions)
                    ELSE [nothing EXCEPT !.store = p.store]
             c == IF only_seed_if_empty(case_count)
                    THEN create_all(s.store, "casestudy", DemoCaseStudies)
                    ELSE [nothing EXCEPT !.store = s.store]
         IN  Return([status |-> "ok"], c.store, p.created \cup s.created \cup c.created)

\* list_products that drains what it lists (find_one_and_delete in a loop)
list_products_draining(d, st) ==
  IF d = "None"
    THEN Return(<<>>, st, {})
    ELSE Return(Stringified(get_documents(st, "product")),
                [st EXCEPT !["product"] = <<>>], {})

\* GET /products
list_products(d, st) ==
  IF d = "None"
    THEN Return(<<>>, st, {})
    ELSE Return(Stringified(get_documents(st, "product")), st, {})

\* get_product that looks the slug up before it checks the handle
get_product_lookup_first(d, st, slug) ==
  LET doc == find_one(st["product"], [slug |-> slug])
  IN  IF doc = None
        THEN HTTPException(404, "Not found", st)
        ELSE IF d = "None"
               THEN HTTPException(500, "Database not configured", st)
               ELSE Return([doc[1] EXCEPT !["_id"] = str(@)], st, {})

\* get_product without the `if not doc` check: a miss returns null
get_product_silent(d, st, slug) ==
  IF d = "None"
    THEN HTTPException(500, "Database not configured", st)
    ELSE LET doc == find_one(st["product"], [slug |-> slug])
         IN  IF doc = None
               THEN Return(None, st, {})
               ELSE Return([doc[1] EXCEPT !["_id"] = str(@)], st, {})

\* GET /products/{slug}
get_product(d, st, slug) ==
  IF d = "None"
    THEN HTTPException(500, "Database not configured", st)
    ELSE LET doc == find_one(st["product"], [slug |-> slug])
         IN  IF doc = None
               THEN HTTPException(404, "Not found", st)
               ELSE Return([doc[1] EXCEPT !["_id"] = str(@)], st, {})

\* GET /solutions?segment=...; segment is None when the parameter is omitted
list_solutions(d, st, segment) ==
  IF d = "None"
    THEN Return(<<>>, st, {})
    ELSE LET filter_q == IF segment # None /\ segment[1] # ""
                           THEN [segment |-> segment[1]] ELSE <<>>
         IN  Return(Stringified(find(st["industrysolution"], filter_q)), st, {})

\* GET /case-studies
list_case_studies(d, st) ==
  IF d = "None"
    THEN Return(<<>>, st, {})
    ELSE Return(Stringified(find(st["casestudy"], <<>>)), st, {})

\* submit_rfq that answers with the collection's size instead of the new id
submit_rfq_size_as_id(d, st, body) ==
  IF RFQ_errors(body) # {}
    THEN RequestValidationError(RFQ_errors(body), st)
    ELSE IF d = "None"
           THEN HTTPException(500, "Database not configured", st)
           ELSE LET payload == RFQ(body)
                    made == create_document(st, "rfq", payload)
                IN  Return([status |-> "received", id |-> str(Len(made.store["rfq"]))],
                           made.store,
                           {[coll |-> "rfq", id |-> made.id, entity |-> payload]})

\* submit_rfq that checks the handle before the body is validated
submit_rfq_handle_first(d, st, body) ==
  IF d = "None"
    THEN HTTPException(500, "Database not configured", st)
    ELSE IF RFQ_errors(body) # {}
           THEN RequestValidationError(RFQ_errors(body), st)
           ELSE LET payload == RFQ(body)
                    made == create_document(st, "rfq", payload)
                IN  Return([status |-> "received", id |-> made.id], made.store,
                           {[coll |-> "rfq", id |-> made.id, entity |-> payload]})

\* POST /rfq: the framework validates the body against RFQ, then calls the handler
submit_rfq(d, st, body) ==
  IF RFQ_errors(body) # {}
    THEN RequestValidationError(RFQ_errors(body), st)
    ELSE IF d = "None"
           THEN HTTPException(500, "Database not configured", st)
           ELSE LET payload == RFQ(body)
                    made == create_document(st, "rfq", payload)
                IN  Return([status |-> "received", id |-> made.id], made.store,
                           {[coll |-> "rfq", id |-> made.id, entity |-> payload]})

-----------------------------------------------------------------------------
(* Inputs and starting contents.                                           *)

\* slugs a caller asks GET /products/{slug} for
Slugs ==
  {"cryogenic-solenoid-valve-csv200", "downhole-pressure-sensor-dps50",
   "legacy-pump-lp1", "no-such-product"}

\* values of the segment query parameter; None: parameter omitted
Segments ==
  {None, Some(""), Some("upstream"), Some("Upstream"), Some("up")}

\* request bodies of POST /rfq
RFQBody(company_name, contact_name, email, quantity, product_slugs) ==
  [company_name |-> company_name, contact_name |-> contact_name, email |-> email,
   quantity |-> quantity, product_slugs |-> product_slugs]

Bodies ==
  { RFQBody(Some("Acme"), Some("J. Doe"), Some("j@acme.com"), None, Some(<<"csv-200">>)),
    RFQBody(Some("Acme"), Some("J. Doe"), Some("j@acme.com"), Some(1), None),
    RFQBody(Some("Borealis"), Some("K. Roe"), Some("not-an-address"), Some(3), Some(<<>>)),
    RFQBody(None, Some("J. Doe"), Some("j@acme.com"), None, Some(<<"csv-200">>)),
    RFQBody(Some("Acme"), None, Some("j@acme.com"), Some(1), None),
    RFQBody(Some("Acme"), Some("J. Doe"), None, None, None),
    RFQBody(Some("Acme"), Some("J. Doe"), Some("j@acme.com"), Some(0), None),
    RFQBody(Some("Acme"), Some("J. Doe"), Some("j@acme.com"), Some(-2), Some(<<"csv-200">>)),
    RFQBody(None, None, None, Some(0), None) }

\* values of an environment variable; None: unset
Envs ==
  {[DATABASE_URL |-> None, DATABASE_NAME |-> None],
   [DATABASE_URL |-> Some(""), DATABASE_NAME |-> Some("")],
   [DATABASE_URL |-> Some("mongodb://localhost:27017"), DATABASE_NAME |-> Some("appdb")]}

\* outcomes of db.list_collection_names()
Listings ==
  {[raised |-> FALSE, others |-> <<>>],
   [raised |-> FALSE,
    others |-> <<"c1", "c2", "c3", "c4", "c5", "c6", "c7", "c8", "c9", "c10">>],
   [raised |-> TRUE, message |-> [i \in 1..85 |-> "x"]]}

LegacyProduct ==
  Product("legacy-pump-lp1", "Legacy Pump LP-1", "Pumps", "Centrifugal pump.",
          "https://example.com/lp1.png", PdfUrl, <<>>, <<"pump">>)

LegacySolutions ==
  << IndustrySolution("refinery-retrofit", "Refinery Retrofit", "Upstream",
                      "Ageing valves.", "Replace them.", <<"legacy-pump-lp1">>),
     IndustrySolution("unsorted-note", "Unsorted Note", "",
                      "No segment chosen.", "None yet.", <<>>),
     IndustrySolution("wellhead-monitoring", "Wellhead Monitoring", "upstream",
                      "Blind spots.", "Add sensors.", <<>>) >>

LegacyCaseStudy ==
  CaseStudy("pipeline-audit", "Pipeline Audit", "Gulf Pipe Inc.", None,
            "Unknown leak rate.", "Audit.", "Leak rate known.", <<>>, None)

EmptyStore == [c \in CollectionNames |-> <<>>]

\* a store holding the given documents, inserted in this order
StoreOf(ps, ss, cs) ==
  create_all(
    create_all(
      create_all(EmptyStore, "product", ps).store,
      "industrysolution", ss).store,
    "casestudy", cs).store

\* the contents the collections may hold when the process starts
InitStores ==
  { StoreOf(<<>>, <<>>, <<>>),
    StoreOf(<<LegacyProduct>>, LegacySolutions, <<LegacyCaseStudy>>),
    StoreOf(<<>>, LegacySolutions, <<>>),
    StoreOf(<<LegacyProduct>>, <<>>, <<LegacyCaseStudy>>) }

Procs == 1..NumProcs

NoCounts == [prod_count |-> None, case_count |-> None, sol_count |-> None]

NoResponse == [op |-> "none", req |-> <<>>, status |-> 0, body |-> <<>>]

-----------------------------------------------------------------------------
(* Requests served one after another: each action is one whole request.    *)

Init ==
  /\ db \in {"None", "Database"}
  /\ store \in InitStores
  /\ resp = NoResponse
  /\ created = {}
  /\ seeds = 0
  /\ pc = [p \in Procs |-> "idle"]
  /\ counts = [p \in Procs |-> NoCounts]

\* the request completes with the handler's result r
Respond(op, req, r) ==
  /\ resp' = [op |-> op, req |-> req, status |-> r.status, body |-> r.body]
  /\ store' = r.store
  /\ created' = created \cup r.created

ReadRoot ==
  /\ Respond("read_root", <<>>,
             Return([message |-> "Oil & Gas Supplier Backend Ready"], store, {}))
  /\ UNCHANGED <<db, seeds, pc, counts>>

TestDatabase ==
  \E env \in Envs, listing \in Listings :
    /\ Respond("test_database", listing,
               test_database(db, store, env.DATABASE_URL, env.DATABASE_NAME, listing))
    /\ UNCHANGED <<db, seeds, pc, counts>>

SeedDemoData ==
  /\ seeds < MaxSeeds
  /\ LET r == seed_demo_data(db, store)
     IN  /\ Respond("seed_demo_data", <<>>, r)
         /\ seeds' = IF r.status = 200 THEN seeds + 1 ELSE seeds
  /\ UNCHANGED <<db, pc, counts>>

ListProducts ==
  /\ Respond("list_products", <<>>, list_products(db, store))
  /\ UNCHANGED <<db, seeds, pc, counts>>

GetProduct ==
  \E slug \in Slugs :
    /\ Respond("get_product", slug, get_product(db, store, slug))
    /\ UNCHANGED <<db, seeds, pc, counts>>

ListSolutions ==
  \E segment \in Segments :
    /\ Respond("list_solutions", segment, list_solutions(db, store, segment))
    /\ UNCHANGED <<db, seeds, pc, counts>>

ListCaseStudies ==
  /\ Respond("list_case_studies", <<>>, list_case_studies(db, store))
  /\ UNCHANGED <<db, seeds, pc, counts>>

SubmitRfq ==
  \E body \in Bodies :
    LET r == submit_rfq(db, store, body)
    IN  /\ Len(r.store["rfq"]) <= MaxRfq
        /\ Respond("submit_rfq", body, r)
        /\ UNCHANGED <<db, seeds, pc, counts>>

Next ==
  \/ ReadRoot
  \/ TestDatabase
  \/ SeedDemoData
  \/ ListProducts
  \/ GetProduct
  \/ ListSolutions
  \/ ListCaseStudies
  \/ SubmitRfq

Spec == Init /\ [][Next]_vars

-----------------------------------------------------------------------------
(* POST /seed run by worker threads in parallel: the framework runs a      *)
(* plain `def` handler in a thread pool, so the handler's storage calls    *)
(* interleave.  Each action is one storage round trip of thread p together *)
(* with the local steps that lead to it.                                   *)

InitConc ==
  /\ db \in {"None", "Database"}
  /\ store = EmptyStore
  /\ resp = NoResponse
  /\ created = {}
  /\ seeds = 0
  /\ pc = [p \in Procs |-> "idle"]
  /\ counts = [p \in Procs |-> NoCounts]

\* thread p makes one create_document call and moves on to position next
SeedCreate(p, collection_name, entity, next) ==
  LET made == create_document(store, collection_name, entity)
  IN  /\ store' = made.store
      /\ created' = created \cup {[coll |-> collection_name, id |-> made.id, entity |-> entity]}
      /\ pc' = [pc EXCEPT ![p] = next]

\* thread p returns {"status": "ok"}
SeedReturn(p) ==
  /\ resp' = [op |-> "seed_demo_data", req |-> <<>>, status |-> 200, body |-> [status |-> "ok"]]
  /\ seeds' = seeds + 1

\* the db check, then prod_count = db["product"].count_documents({})
SeedCountProducts(p) ==
  /\ pc[p] = "idle"
  /\ IF db = "None"
       THEN /\ Respond("seed_demo_data", <<>>,
                       HTTPException(500, "Database not configured", store))
            /\ pc' = [pc EXCEPT ![p] = "done"]
            /\ UNCHANGED counts
       ELSE /\ counts' = [counts EXCEPT ![p].prod_count = Some(count_documents(store["product"]))]
            /\ pc' = [pc EXCEPT ![p] = "count_case"]
            /\ UNCHANGED <<store, resp, created>>
  /\ UNCHANGED <<db, seeds>>

\* case_count = db["casestudy"].count_documents({})
SeedCountCaseStudies(p) ==
  /\ pc[p] = "count_case"
  /\ counts' = [counts EXCEPT ![p].case_count = Some(count_documents(store["casestudy"]))]
  /\ pc' = [pc EXCEPT ![p] = "count_sol"]
  /\ UNCHANGED <<db, store, resp, created, seeds>>

\* sol_count = db["industrysolution"].count_documents({})
SeedCountSolutions(p) ==
  /\ pc[p] = "count_sol"
  /\ counts' = [counts EXCEPT ![p].sol_count = Some(count_documents(store["industrysolution"]))]
  /\ pc' = [pc EXCEPT ![p] = "if_prod"]
  /\ UNCHANGED <<db, store, resp, created, seeds>>

\* if prod_count == 0: the first create_document("product", ...)
SeedFirstProduct(p) ==
  /\ pc[p] = "if_prod"
  /\ IF only_seed_if_empty(counts[p].prod_count[1])
       THEN SeedCreate(p, "product", DemoProducts[1], "product_2")
       ELSE /\ pc' = [pc EXCEPT ![p] = "if_sol"]
            /\ UNCHANGED <<store, created>>
  /\ UNCHANGED <<db, resp, seeds, counts>>

\* the second create_document("product", ...)
SeedSecondProduct(p) ==
  /\ pc[p] = "product_2"
  /\ SeedCreate(p, "product", DemoProducts[2], "if_sol")
  /\ UNCHANGED <<db, resp, seeds, counts>>

\* if sol_count == 0: the first create_document("industrysolution", ...)
SeedFirstSolution(p) ==
  /\ pc[p] = "if_sol"
  /\ IF only_seed_if_empty(counts[p].sol_count[1])
       THEN SeedCreate(p, "industrysolution", DemoSolutions[1], "solution_2")
       ELSE /\ pc' = [pc EXCEPT ![p] = "if_case"]
            /\ UNCHANGED <<store, created>>
  /\ UNCHANGED <<db, resp, seeds, counts>>

\* the second create_document("industrysolution", ...)
SeedSecondSolution(p) ==
  /\ pc[p] = "solution_2"
  /\ SeedCreate(p, "industrysolution", DemoSolutions[2], "if_case")
  /\ UNCHANGED <<db, resp, seeds, counts>>

\* if case_count == 0: create_document("casestudy", ...); then return
SeedCaseStudy(p) ==
  /\ pc[p] = "if_case"
  /\ IF only_seed_if_empty(counts[p].case_count[1])
       THEN SeedCreate(p, "casestudy", DemoCaseStudies[1], "done")
       ELSE /\ pc' = [pc EXCEPT ![p] = "done"]
            /\ UNCHANGED <<store, created>>
  /\ SeedReturn(p)
  /\ UNCHANGED <<db, counts>>

NextConc ==
  \E p \in Procs :
    \/ SeedCountProducts(p)
    \/ SeedCountCaseStudies(p)
    \/ SeedCountSolutions(p)
    \/ SeedFirstProduct(p)
    \/ SeedSecondProduct(p)
    \/ SeedFirstSolution(p)
    \/ SeedSecondSolution(p)
    \/ SeedCaseStudy(p)

SpecConc == InitConc /\ [][NextConc]_vars

-----------------------------------------------------------------------------
(* Properties.                                                             *)

SeededCollections == {"product", "industrysolution", "casestudy"}

ListingOps == {"list_products", "list_solutions", "list_case_studies"}

GetOps == ListingOps \cup {"read_root", "test_database", "get_product"}

\* every field of a document but its identifier
Fields(d) == [k \in DOMAIN d \ {"_id"} |-> d[k]]

\* a body as the RFQ contract describes a valid one
ValidBody(body) ==
  /\ body.company_name # None
  /\ body.contact_name # None
  /\ body.email # None
  /\ (body.quantity = None \/ body.quantity[1] >= 1)

\* docs extends old at its end and changes none of old's documents
Extends(docs, old) ==
  /\ Len(docs) >= Len(old)
  /\ SubSeq(docs, 1, Len(old)) = old

\* how many documents of docs carry the slug
SlugCount(docs, slug) == Cardinality({i \in DOMAIN docs : docs[i].slug = slug})

AllDone == \A p \in Procs : pc[p] = "done"

\* C1: a /seed request that runs after an earlier /seed request has completed
\* inserts nothing: the document count of product, industrysolution and
\* casestudy is the same after it as before it, whatever the collections
\* held when the process started.
C1_SeedIdempotent ==
  [][(seeds >= 1 /\ seeds' = seeds + 1)
       => \A c \in SeededCollections : Len(store'[c]) = Len(store[c])]_vars

\* a second /seed has completed after a first one that inserted demo records
C1_Witness ==
  /\ seeds = 2
  /\ resp.op = "seed_demo_data"
  /\ \E c \in created : c.coll = "product"

\* C2: with storage configured, a POST /rfq request adds a document to the
\* rfq collection if and only if its body is valid; an invalid body is
\* answered with a validation error and leaves the collection as it was.
C2_RfqPersistedIffValid ==
  [][(db = "Database" /\ resp'.op = "submit_rfq")
       => /\ ValidBody(resp'.req) <=> Len(store'["rfq"]) = Len(store["rfq"]) + 1
          /\ ValidBody(resp'.req) => resp'.status = 200
          /\ ~ValidBody(resp'.req) => /\ resp'.status = 422
                                      /\ resp'.body.detail # {}
                                      /\ store'["rfq"] = store["rfq"]]_vars

\* a body with quantity 0 was rejected after an earlier body was persisted
C2_Witness ==
  /\ db = "Database"
  /\ resp.op = "submit_rfq"
  /\ resp.req.quantity = Some(0)
  /\ resp.status = 422
  /\ \E i \in DOMAIN store["rfq"] : store["rfq"][i].quantity = None

\* C3: with the storage handle unconfigured, the three listing endpoints
\* answer 200 with an empty list, GET /products/{slug}, POST /seed and a
\* valid POST /rfq answer 500, and no request is answered 404.
C3_UnconfiguredResponses ==
  db = "None"
    => /\ resp.op \in ListingOps => (resp.status = 200 /\ resp.body = <<>>)
       /\ resp.op \in {"get_product", "seed_demo_data"} => resp.status = 500
       /\ (resp.op = "submit_rfq" /\ ValidBody(resp.req)) => resp.status = 500
       /\ resp.status # 404

\* a lookup of a slug was answered 500 on an unconfigured handle
C3_Witness ==
  /\ db = "None"
  /\ resp.op = "get_product"
  /\ resp.req = "no-such-product"
  /\ resp.status = 500

\* C4: with storage configured, GET /products/{slug} answers 200 exactly when
\* the product collection holds a document with that slug, and then returns
\* such a document; for every other slug it answers 404.
C4_GetProductFoundOr404 ==
  (db = "Database" /\ resp.op = "get_product")
    => LET present == \E i \in DOMAIN store["product"] : store["product"][i].slug = resp.req
       IN  /\ resp.status = 200 <=> present
           /\ ~present => resp.status = 404
           /\ present => /\ resp.body.slug = resp.req
                         /\ \E i \in DOMAIN store["product"] :
                              Fields(store["product"][i]) = Fields(resp.body)

\* an absent slug was looked up in a collection that holds products
C4_Witness ==
  /\ db = "Database"
  /\ resp.op = "get_product"
  /\ resp.status = 404
  /\ store["product"] # <<>>

\* C5: for every supplied value of the segment parameter, the empty string
\* included, GET /solutions returns exactly the industrysolution documents
\* whose segment equals that value; it returns all documents only when the
\* parameter is omitted.
C5_SegmentFilterExact ==
  (db = "Database" /\ resp.op = "list_solutions")
    => LET docs == store["industrysolution"]
           Wanted(d) == resp.req = None \/ d.segment = resp.req[1]
       IN  resp.body = Stringified(SelectSeq(docs, Wanted))

\* C6: no request changes or removes a stored document; the rfq collection
\* grows only by POST /rfq, the product, industrysolution and casestudy
\* collections grow only by POST /seed, and GET requests leave every
\* collection as it was.
C6_NoMutationNoDelete ==
  [][/\ \A c \in CollectionNames : Extends(store'[c], store[c])
     /\ store'["rfq"] # store["rfq"] => resp'.op = "submit_rfq"
     /\ (\E c \in SeededCollections : store'[c] # store[c]) => resp'.op = "seed_demo_data"
     /\ resp'.op \in GetOps => store' = store]_vars

\* a listing was served from a store that was seeded and holds an RFQ
C6_Witness ==
  /\ resp.op = "list_products"
  /\ resp.status = 200
  /\ seeds >= 1
  /\ Len(resp.body) >= 2
  /\ store["rfq"] # <<>>

\* C7: a valid POST /rfq on a configured store is answered {status:
\* "received", id: the new document's identifier as a string}, the new
\* document's fields equal the submitted values, and each accepted request
\* added exactly one document; every entity created so far is stored once
\* under its identifier with the fields it was created with, and a created
\* product is what a lookup by its slug returns, identifier aside.
C7_CreateThenObserve ==
  db = "Database"
    => /\ (resp.op = "submit_rfq" /\ resp.status = 200)
            => /\ store["rfq"] # <<>>
               /\ LET doc == store["rfq"][Len(store["rfq"])]
                  IN  /\ resp.body = [status |-> "received", id |-> str(doc["_id"])]
                      /\ Fields(doc) = RFQ(resp.req)
                      /\ doc.company_name = resp.req.company_name[1]
                      /\ doc.quantity = resp.req.quantity
       /\ Len(store["rfq"]) = Cardinality({c \in created : c.coll = "rfq"})
       /\ \A c \in created :
            /\ Cardinality({i \in DOMAIN store[c.coll] :
                              str(store[c.coll][i]["_id"]) = c.id}) = 1
            /\ \E i \in DOMAIN store[c.coll] :
                 /\ str(store[c.coll][i]["_id"]) = c.id
                 /\ Fields(store[c.coll][i]) = c.entity
            /\ c.coll = "product"
                 => LET r == get_product(db, store, c.entity.slug)
                    IN  r.status = 200 /\ Fields(r.body) = c.entity

\* a second RFQ was persisted in a store whose products were created by /seed
C7_Witness ==
  /\ resp.op = "submit_rfq"
  /\ resp.status = 200
  /\ Len(store["rfq"]) = 2
  /\ \E c \in created : c.coll = "product"

\* C8 as stated: a POST /rfq request whose body fails validation is answered
\* with status 400, whether or not storage is configured.
C8_ValidationStatus400 ==
  (resp.op = "submit_rfq" /\ ~ValidBody(resp.req)) => resp.status = 400

\* C8 as amended: a POST /rfq request whose body fails validation is answered
\* with status 422, whether or not storage is configured.
C8_ValidationStatus422 ==
  (resp.op = "submit_rfq" /\ ~ValidBody(resp.req)) => resp.status = 422

\* an invalid body was answered on an unconfigured handle
C8_Witness ==
  /\ db = "None"
  /\ resp.op = "submit_rfq"
  /\ ~ValidBody(resp.req)
  /\ resp.status = 422

\* C9: GET /test answers 200 in every storage state (handle unconfigured,
\* listing the collections succeeds, listing the collections raises), and
\* connection_status is "Connected" only when the handle is configured and
\* listing the collections succeeded.
C9_TestNeverFails ==
  resp.op = "test_database"
    => /\ resp.status = 200
       /\ resp.body.backend = "Running"
       /\ resp.body.connection_status = "Connected"
            => (db = "Database" /\ ~resp.req.raised)

\* the diagnostics were served while listing the collections raised
C9_Witness ==
  /\ db = "Database"
  /\ resp.op = "test_database"
  /\ resp.req.raised
  /\ resp.status = 200
  /\ resp.body.connection_status = "Not Connected"
  /\ Len(resp.body.database.detail) = ErrLimit

====
